---- MODULE Spec2Model ----
(***************************************************************************)
(* Wire-format codec layer of rust-lightning (src/util/ser.rs).            *)
(*                                                                         *)
(* The Writeable / Readable implementations are pure functions of the      *)
(* value and of the sink or source they are handed.  Every implementation  *)
(* is an operator here: Write_T(w, v) returns the sink after the call and  *)
(* the Result, Read_T(r) returns the source after the call and the         *)
(* Result.  A caller (the state machine at the end of the module) encodes  *)
(* values into a sink, hands the bytes to a source, and decodes them.      *)
(*                                                                         *)
(* Integers wider than 16 bits are kept as big-endian sequences of 16-bit  *)
(* limbs (u32: two limbs, u64: four limbs), so that every value of the     *)
(* type is representable and the byte conversion is computed, not assumed. *)
(***************************************************************************)
EXTENDS Integers, Sequences, FiniteSets, TLC

(***************************************************************************)
(* Bounds of the model (inputs the caller draws).                          *)
(***************************************************************************)
MaxLen == 2
MaxPayload == 3
MaxPairs == 2
MaxFields == 2
MaxFailAt == 3
MaxPermute == 3

(***************************************************************************)
(* The record a caller keeps of one call: the implementation called (its   *)
(* type ty and, for the macro-generated ones, its width n in bytes), the   *)
(* value handed in (a wide one by its count), the Result, and the offset   *)
(* the call started at.  ty and n come first: TLC compares records field   *)
(* by field, and two calls of one implementation hold values of one type.  *)
(***************************************************************************)
WriteCall(ty, n, v, wide, res, from) ==
  [ty |-> ty, n |-> n, val |-> v, wide |-> wide, res |-> res, from |-> from]
ReadCall(ty, n, res, from) == [ty |-> ty, n |-> n, res |-> res, from |-> from]

(***************************************************************************)
(* Program constants.                                                      *)
(***************************************************************************)
MAX_BUF_SIZE == 64 * 1024

Unit == "unit"
Ok(v) == [ok |-> TRUE, val |-> v]
Err(e) == [ok |-> FALSE, err |-> e]

None == [some |-> FALSE]
Some(v) == [some |-> TRUE, val |-> v]

Seqs(S, n) == UNION {[1..k -> S] : k \in 0..n}

\* The sequence f, held as a tuple.
Tuple(f) == f \o <<>>

Fill(n, b) == Tuple([i \in 1..n |-> b])
Ramp(n) == Tuple([i \in 1..n |-> i % 256])

\* Concatenation of chunks[lo..hi], by halving (the depth stays logarithmic).
RECURSIVE Flatten(_, _, _)
Flatten(chunks, lo, hi) ==
  IF lo > hi THEN <<>>
  ELSE IF lo = hi THEN chunks[lo]
  ELSE LET mid == (lo + hi) \div 2
       IN Flatten(chunks, lo, mid) \o Flatten(chunks, mid + 1, hi)

(***************************************************************************)
(* Casts and checked arithmetic.                                           *)
(***************************************************************************)
\* `x as u16`: truncation to the low 16 bits.
AsU16(n) == n % 65536

\* usize::checked_mul.  usize is at least 32 bits wide (MAX_BUF_SIZE would
\* not compile otherwise); None is returned when the product leaves the
\* range that every such usize holds.
checked_mul(a, b) ==
  IF b # 0 /\ a > 2147483647 \div b THEN None ELSE Some(a * b)

(***************************************************************************)
(* util::byte_utils.                                                       *)
(***************************************************************************)
be16_to_array(v) == <<(v \div 256) % 256, v % 256>>
slice_to_be16(b) == b[1] * 256 + b[2]
be32_to_array(v) == be16_to_array(v[1]) \o be16_to_array(v[2])
slice_to_be32(b) ==
  <<slice_to_be16(SubSeq(b, 1, 2)), slice_to_be16(SubSeq(b, 3, 4))>>
be64_to_array(v) ==
  be16_to_array(v[1]) \o be16_to_array(v[2]) \o
  be16_to_array(v[3]) \o be16_to_array(v[4])
slice_to_be64(b) ==
  <<slice_to_be16(SubSeq(b, 1, 2)), slice_to_be16(SubSeq(b, 3, 4)),
    slice_to_be16(SubSeq(b, 5, 6)), slice_to_be16(SubSeq(b, 7, 8))>>

\* impl From<std::io::Error> for DecodeError (ln::msgs): an unexpected end
\* of file is a short read, every other I/O failure is passed through.
FromIoError(kind) == IF kind = "UnexpectedEof" THEN "ShortRead" ELSE "Io"

\* The `?` operator on an io::Result inside a function returning
\* Result<_, DecodeError>.
Try(res) == IF res.ok THEN res ELSE Err(FromIoError(res.err))

(***************************************************************************)
(* Sink.  w.buf holds the bytes accepted so far, w.calls counts the        *)
(* write_all calls made, and the call number w.failAt (0: none) fails.     *)
(***************************************************************************)
NewSink(failAt) == [buf |-> <<>>, calls |-> 0, failAt |-> failAt]

write_all(w, buf) ==
  IF w.failAt = w.calls + 1
  THEN [w |-> [w EXCEPT !.calls = @ + 1], res |-> Err("WriteZero")]
  ELSE [w |-> [w EXCEPT !.calls = @ + 1, !.buf = @ \o buf], res |-> Ok(Unit)]

\* x.write(w)?; then the rest of the function.
Then(c, Rest(_)) == IF c.res.ok THEN Rest(c.w) ELSE c

\* for e in iter { e.write(w)?; } where each e.write(w) is one write_all of
\* chunks[i] followed by `?`: the calls before the failing one are
\* accepted, the failing one ends the loop with its error.
WriteEach(w, chunkFn) ==
  LET chunks == Tuple(chunkFn)
      n == Len(chunks)
      fails == w.failAt > w.calls /\ w.failAt <= w.calls + n
      k == IF fails THEN w.failAt - w.calls - 1 ELSE n
  IN [w |-> [w EXCEPT !.calls = @ + (IF fails THEN k + 1 ELSE n),
                      !.buf = @ \o Flatten(chunks, 1, k)],
      res |-> IF fails THEN Err(FromIoError("WriteZero")) ELSE Ok(Unit)]

(***************************************************************************)
(* Source.  r.buf is the byte string, r.pos the number of bytes consumed.  *)
(* std::io::Read::read_exact leaves the amount consumed by a failing call  *)
(* unspecified: `drain` tells whether it consumes what is left.            *)
(***************************************************************************)
NewSource(bytes) == [buf |-> bytes, pos |-> 0]
Remaining(r) == Len(r.buf) - r.pos

read_exact(r, n) ==
  IF Remaining(r) >= n
  THEN [r |-> [r EXCEPT !.pos = @ + n],
        res |-> Ok(SubSeq(r.buf, r.pos + 1, r.pos + n))]
  ELSE [r |-> [r EXCEPT !.pos = IF r.drain THEN Len(r.buf) ELSE @],
        res |-> Err("UnexpectedEof")]

\* The source as one read call sees it.
Reader(r, drain) == [buf |-> r.buf, pos |-> r.pos, drain |-> drain]

(***************************************************************************)
(* impl_writeable_primitive!(u64 / u32 / u16)                              *)
(***************************************************************************)
meth_write(len, v) ==
  CASE len = 8 -> be64_to_array(v)
    [] len = 4 -> be32_to_array(v)
    [] len = 2 -> be16_to_array(v)

meth_read(len, buf) ==
  CASE len = 8 -> slice_to_be64(buf)
    [] len = 4 -> slice_to_be32(buf)
    [] len = 2 -> slice_to_be16(buf)

Write_primitive(len, w, v) ==
  LET c == write_all(w, meth_write(len, v)) IN [w |-> c.w, res |-> Try(c.res)]

Read_primitive(len, r) ==
  LET c == read_exact(r, len)
  IN IF ~c.res.ok THEN [r |-> c.r, res |-> Try(c.res)]
     ELSE [r |-> c.r, res |-> Ok(meth_read(len, c.res.val))]

Write_u16(w, v) == Write_primitive(2, w, v)
Read_u16(r) == Read_primitive(2, r)

(***************************************************************************)
(* u8                                                                      *)
(***************************************************************************)
Write_u8(w, v) ==
  LET c == write_all(w, <<v>>) IN [w |-> c.w, res |-> Try(c.res)]

Read_u8(r) ==
  LET c == read_exact(r, 1)
  IN IF ~c.res.ok THEN [r |-> c.r, res |-> Try(c.res)]
     ELSE [r |-> c.r, res |-> Ok(c.res.val[1])]

(***************************************************************************)
(* bool                                                                    *)
(***************************************************************************)
Write_bool(w, v) ==
  LET c == write_all(w, <<IF v THEN 1 ELSE 0>>)
  IN [w |-> c.w, res |-> Try(c.res)]

\* Faulty variant: every nonzero byte is taken as true.
Read_bool_Truthy(r) ==
  LET c == read_exact(r, 1)
  IN IF ~c.res.ok THEN [r |-> c.r, res |-> Try(c.res)]
     ELSE [r |-> c.r, res |-> Ok(c.res.val[1] # 0)]

Read_bool(r) ==
  LET c == read_exact(r, 1)
  IN IF ~c.res.ok THEN [r |-> c.r, res |-> Try(c.res)]
     ELSE IF c.res.val[1] # 0 /\ c.res.val[1] # 1
          THEN [r |-> c.r, res |-> Err("InvalidValue")]
          ELSE [r |-> c.r, res |-> Ok(c.res.val[1] = 1)]

(***************************************************************************)
(* impl_array!(32 / 33 / 64 / 1300)                                        *)
(***************************************************************************)
ArraySizes == {32, 33, 64, 1300}

Write_array(size, w, v) ==
  LET c == write_all(w, v) IN [w |-> c.w, res |-> Try(c.res)]

Read_array(size, r) ==
  LET c == read_exact(r, size)
  IN IF ~c.res.ok THEN [r |-> c.r, res |-> Try(c.res)]
     ELSE [r |-> c.r, res |-> Ok(c.res.val)]

(***************************************************************************)
(* HashMap<K, V>, instantiated with K = u16 and V = u8.  A mapping is a    *)
(* function from its keys to their values; `items` is the sequence of      *)
(* (key, value) pairs self.iter() yields, in an order the HashMap leaves   *)
(* unspecified.                                                            *)
(***************************************************************************)
\* Faulty variant: a key already present keeps its value
\* (entry(k).or_insert(v)).
Insert_KeepFirst(ret, k, v) ==
  [x \in DOMAIN ret \cup {k} |-> IF x \in DOMAIN ret THEN ret[x] ELSE v]

Insert(ret, k, v) ==
  [x \in DOMAIN ret \cup {k} |-> IF x = k THEN v ELSE ret[x]]

EmptyMap == [x \in {} |-> 0]

Iter(m, ord) == [i \in 1..Len(ord) |-> <<ord[i], m[ord[i]]>>]

Write_HashMap(w, m, items) ==
  Then(Write_u16(w, AsU16(Cardinality(DOMAIN m))),
       LAMBDA w1 :
         WriteEach(w1, [i \in 1..(2 * Len(items)) |->
                          IF i % 2 = 1
                          THEN be16_to_array(items[(i + 1) \div 2][1])
                          ELSE <<items[i \div 2][2]>>]))

\* Iterations lo..hi of
\*   for _ in 0..len { ret.insert(K::read(r)?, V::read(r)?); }
\* run in order (the range is halved only to keep the evaluation shallow).
RECURSIVE ReadPairs(_, _, _, _)
ReadPairs(r, ret, lo, hi) ==
  IF lo > hi THEN [r |-> r, res |-> Ok(ret)]
  ELSE IF lo = hi
  THEN LET k == Read_u16(r)
       IN IF ~k.res.ok THEN k
          ELSE LET v == Read_u8(k.r)
               IN IF ~v.res.ok THEN v
                  ELSE [r |-> v.r, res |-> Ok(Insert(ret, k.res.val, v.res.val))]
  ELSE LET mid == (lo + hi) \div 2
           a == ReadPairs(r, ret, lo, mid)
       IN IF ~a.res.ok THEN a ELSE ReadPairs(a.r, a.res.val, mid + 1, hi)

\* Faulty variant: the loop runs over 0..=len, one pair too many.
Read_HashMap_Inclusive(r) ==
  LET len == Read_u16(r)
  IN IF ~len.res.ok THEN len
     ELSE ReadPairs(len.r, EmptyMap, 0, len.res.val)

Read_HashMap(r) ==
  LET len == Read_u16(r)
  IN IF ~len.res.ok THEN len
     ELSE ReadPairs(len.r, EmptyMap, 1, len.res.val)

(***************************************************************************)
(* Vec<u8>                                                                 *)
(***************************************************************************)
Write_VecU8(w, v) ==
  Then(Write_u16(w, AsU16(Len(v))),
       LAMBDA w1 : LET c == write_all(w1, v) IN [w |-> c.w, res |-> Try(c.res)])

\* Faulty variant: a single read call instead of read_exact, returning the
\* bytes that are there.
Read_VecU8_Partial(r) ==
  LET len == Read_u16(r)
  IN IF ~len.res.ok THEN len
     ELSE LET k == IF len.res.val < Remaining(len.r) THEN len.res.val
                   ELSE Remaining(len.r)
              c == read_exact(len.r, k)
          IN [r |-> c.r, res |-> Ok(c.res.val)]

Read_VecU8(r) ==
  LET len == Read_u16(r)
  IN IF ~len.res.ok THEN len
     ELSE LET c == read_exact(len.r, len.res.val)
          IN IF ~c.res.ok THEN [r |-> c.r, res |-> Try(c.res)]
             ELSE [r |-> c.r, res |-> Ok(c.res.val)]

(***************************************************************************)
(* secp256k1 (external): compact signatures and compressed public keys.    *)
(* A Signature is its pair of scalars, each a 32-byte big-endian string    *)
(* below the group order; a PublicKey is the parity of y and the x         *)
(* coordinate of a curve point.                                            *)
(***************************************************************************)
CurveOrder ==
  <<255, 255, 255, 255, 255, 255, 255, 255, 255, 255, 255, 255, 255, 255,
    255, 254, 186, 174, 220, 230, 175, 72, 160, 59, 191, 210, 94, 140, 208,
    54, 65, 65>>

\* a < b for byte strings of equal length read as big-endian numbers.
LessBE(a, b) ==
  \E i \in 1..Len(a) : a[i] < b[i] /\ \A j \in 1..(i - 1) : a[j] = b[j]

serialize_compact(sig) == sig.r \o sig.s

from_compact(buf) ==
  LET rr == SubSeq(buf, 1, 32)
      ss == SubSeq(buf, 33, 64)
  IN IF LessBE(rr, CurveOrder) /\ LessBE(ss, CurveOrder)
     THEN Ok([r |-> rr, s |-> ss])
     ELSE Err("InvalidSignature")

\* x coordinate of the generator point; both parities are curve points.
GeneratorX ==
  <<121, 190, 102, 126, 249, 220, 187, 172, 85, 160, 98, 149, 206, 135, 11,
    7, 2, 155, 252, 219, 45, 206, 40, 217, 89, 242, 129, 91, 22, 248, 23,
    152>>

\* The x coordinates the model knows to lie on the curve.  Every other x the
\* model feeds to from_slice is at or above the field prime, hence invalid.
CurveX == {GeneratorX}

serialize(key) == <<2 + key.parity>> \o key.x

from_slice(buf) ==
  IF Len(buf) = 33 /\ buf[1] \in {2, 3} /\ SubSeq(buf, 2, 33) \in CurveX
  THEN Ok([parity |-> buf[1] - 2, x |-> SubSeq(buf, 2, 33)])
  ELSE Err("InvalidPublicKey")

(***************************************************************************)
(* Signature                                                               *)
(***************************************************************************)
Write_Signature(w, sig) == Write_array(64, w, serialize_compact(sig))

Read_Signature(r) ==
  LET buf == Read_array(64, r)
  IN IF ~buf.res.ok THEN buf
     ELSE LET sig == from_compact(buf.res.val)
          IN IF sig.ok THEN [r |-> buf.r, res |-> Ok(sig.val)]
             ELSE [r |-> buf.r, res |-> Err("BadSignature")]

(***************************************************************************)
(* Vec<Signature>                                                          *)
(***************************************************************************)
\* Iterations lo..hi of `for _ in 0..len { ret.push(Signature::read(r)?); }`,
\* run in order; the result is the signatures pushed by these iterations.
RECURSIVE ReadSignatures(_, _, _)
ReadSignatures(r, lo, hi) ==
  IF lo > hi THEN [r |-> r, res |-> Ok(<<>>)]
  ELSE IF lo = hi
  THEN LET e == Read_Signature(r)
       IN IF ~e.res.ok THEN e ELSE [r |-> e.r, res |-> Ok(<<e.res.val>>)]
  ELSE LET mid == (lo + hi) \div 2
           a == ReadSignatures(r, lo, mid)
       IN IF ~a.res.ok THEN a
          ELSE LET b == ReadSignatures(a.r, mid + 1, hi)
               IN IF ~b.res.ok THEN b
                  ELSE [r |-> b.r, res |-> Ok(a.res.val \o b.res.val)]

\* Faulty variant: the guard multiplies by 64, the bytes a signature takes.
Write_VecSignature_Size64(w, v) ==
  LET byte_size == checked_mul(Len(v), 64)
  IN IF ~byte_size.some THEN [w |-> w, res |-> Err("BadLengthDescriptor")]
     ELSE IF byte_size.val > MAX_BUF_SIZE
     THEN [w |-> w, res |-> Err("BadLengthDescriptor")]
     ELSE Then(Write_u16(w, AsU16(Len(v))),
               LAMBDA w1 :
                 WriteEach(w1, [i \in 1..Len(v) |-> serialize_compact(v[i])]))

Write_VecSignature(w, v) ==
  LET byte_size == checked_mul(Len(v), 33)
  IN IF ~byte_size.some THEN [w |-> w, res |-> Err("BadLengthDescriptor")]
     ELSE IF byte_size.val > MAX_BUF_SIZE
     THEN [w |-> w, res |-> Err("BadLengthDescriptor")]
     ELSE Then(Write_u16(w, AsU16(Len(v))),
               LAMBDA w1 :
                 WriteEach(w1, [i \in 1..Len(v) |-> serialize_compact(v[i])]))

\* Faulty variant: the declared count is not checked against MAX_BUF_SIZE.
Read_VecSignature_Unguarded(r) ==
  LET len == Read_u16(r)
  IN IF ~len.res.ok THEN len ELSE ReadSignatures(len.r, 1, len.res.val)

Read_VecSignature(r) ==
  LET len == Read_u16(r)
  IN IF ~len.res.ok THEN len
     ELSE LET byte_size == checked_mul(len.res.val, 33)
          IN IF ~byte_size.some
             THEN [r |-> len.r, res |-> Err("BadLengthDescriptor")]
             ELSE IF byte_size.val > MAX_BUF_SIZE
             THEN [r |-> len.r, res |-> Err("BadLengthDescriptor")]
             ELSE ReadSignatures(len.r, 1, len.res.val)

(***************************************************************************)
(* Script and Option<Script>.  A Script wraps its bytes.                   *)
(***************************************************************************)
ScriptFrom(buf) == [script |-> buf]
as_bytes(s) == s.script

Write_Script(w, s) ==
  Then(Write_u16(w, AsU16(Len(as_bytes(s)))),
       LAMBDA w1 :
         LET c == write_all(w1, as_bytes(s)) IN [w |-> c.w, res |-> Try(c.res)])

Read_Script(r) ==
  LET len == Read_u16(r)
  IN IF ~len.res.ok THEN len
     ELSE LET c == read_exact(len.r, len.res.val)
          IN IF ~c.res.ok THEN [r |-> c.r, res |-> Try(c.res)]
             ELSE [r |-> c.r, res |-> Ok(ScriptFrom(c.res.val))]

\* Faulty variant: an empty script is written like an absent one.
Write_OptionScript_EmptyAsAbsent(w, o) ==
  IF o.some /\ Len(as_bytes(o.val)) > 0 THEN Write_Script(w, o.val)
  ELSE [w |-> w, res |-> Ok(Unit)]

Write_OptionScript(w, o) ==
  IF o.some THEN Write_Script(w, o.val) ELSE [w |-> w, res |-> Ok(Unit)]

Read_OptionScript(r) ==
  LET len == Read_u16(r)
  IN IF len.res.ok
     THEN LET c == read_exact(len.r, len.res.val)
          IN IF ~c.res.ok THEN [r |-> c.r, res |-> Try(c.res)]
             ELSE [r |-> c.r, res |-> Ok(Some(ScriptFrom(c.res.val)))]
     ELSE IF len.res.err = "ShortRead" THEN [r |-> len.r, res |-> Ok(None)]
     ELSE len

(***************************************************************************)
(* PublicKey, Sha256dHash                                                  *)
(***************************************************************************)
Write_PublicKey(w, key) == Write_array(33, w, serialize(key))

Read_PublicKey(r) ==
  LET buf == Read_array(33, r)
  IN IF ~buf.res.ok THEN buf
     ELSE LET key == from_slice(buf.res.val)
          IN IF key.ok THEN [r |-> buf.r, res |-> Ok(key.val)]
             ELSE [r |-> buf.r, res |-> Err("BadPublicKey")]

HashFrom(buf) == [hash |-> buf]

Write_Sha256dHash(w, h) == Write_array(32, w, h.hash)

Read_Sha256dHash(r) ==
  LET buf == Read_array(32, r)
  IN IF ~buf.res.ok THEN buf ELSE [r |-> buf.r, res |-> Ok(HashFrom(buf.res.val))]

(***************************************************************************)
(* Inputs of the caller.                                                   *)
(***************************************************************************)
ByteVals == {0, 255}
U8Vals == {0, 1, 2, 255}
U16Vals == {0, 1, 255, 256, 65535}
U32Vals == {<<0, 0>>, <<0, 1>>, <<258, 772>>, <<65535, 65535>>}
U64Vals ==
  {<<0, 0, 0, 0>>, <<258, 772, 1286, 1800>>, <<65535, 65535, 65535, 65535>>}

PrimitiveVals(len) ==
  CASE len = 2 -> U16Vals [] len = 4 -> U32Vals [] len = 8 -> U64Vals
PrimitiveHead(len) ==
  CASE len = 2 -> {258} [] len = 4 -> {<<258, 772>>}
    [] len = 8 -> {<<258, 772, 1286, 1800>>}

ArrayVals(size) == {Fill(size, 255), Ramp(size)}

VecU8Small == Seqs(ByteVals, MaxLen)
ScriptSmall == {ScriptFrom(b) : b \in VecU8Small}
OptionScriptSmall == {None} \cup {Some(s) : s \in ScriptSmall}

MapKeys == {0, 256}
MapVals == {0, 7}
Perms(S) ==
  {s \in [1..Cardinality(S) -> S] : \A i, j \in DOMAIN s : i # j => s[i] # s[j]}
\* The orders in which a mapping with key set S may be iterated; beyond
\* MaxPermute keys only the ascending order is drawn.
Ascending(S) ==
  [i \in 1..Cardinality(S) |->
     CHOOSE x \in S : Cardinality({y \in S : y < x}) = i - 1]
IterOrders(S) ==
  IF Cardinality(S) <= MaxPermute THEN Perms(S) ELSE {Ascending(S)}
SmallMaps ==
  UNION {[D -> MapVals] : D \in {E \in SUBSET MapKeys : Cardinality(E) <= MaxPairs}}
\* A mapping together with the pairs its iterator yields.
MapsUpTo(n) ==
  UNION {{[m |-> m, items |-> Iter(m, o)] : o \in Perms(DOMAIN m)} :
           m \in {x \in SmallMaps : Cardinality(DOMAIN x) <= n}}
MapSmall == MapsUpTo(MaxPairs)

Sig1 == [r |-> Fill(31, 0) \o <<1>>, s |-> Fill(31, 0) \o <<1>>]
Sig2 == [r |-> Ramp(32), s |-> Fill(32, 127)]
SigVals == {Sig1, Sig2}
\* 64 bytes that are not a compact signature (both scalars overflow).
BadCompact == Fill(64, 255)
VecSigSmall == Seqs(SigVals, MaxLen)

KeyVals == {[parity |-> p, x |-> GeneratorX] : p \in {0, 1}}
HashVals == {HashFrom(Fill(32, 0)), HashFrom(Ramp(32))}

\* Wide inputs: lengths and counts around the end of the 16-bit range and
\* around the signature-vector ceiling.  A wide input is logged by its
\* count n beside the empty value of its type; WideVal gives the value.
WideLens(ty) ==
  CASE ty = "VecU8" -> {65535, 65536, 65538}
    [] ty = "Script" -> {65536}
    [] ty = "OptionScript" -> {65536}
    [] ty = "VecSignature" -> {1985, 1986, 2000, 65537}

Blank(ty) ==
  CASE ty = "VecU8" -> <<>>
    [] ty = "Script" -> ScriptFrom(<<>>)
    [] ty = "OptionScript" -> Some(ScriptFrom(<<>>))
    [] ty = "VecSignature" -> <<>>

WideVal(ty, n) ==
  CASE ty = "VecU8" -> Ramp(n)
    [] ty = "Script" -> ScriptFrom(Ramp(n))
    [] ty = "OptionScript" -> Some(ScriptFrom(Ramp(n)))
    [] ty = "VecSignature" -> Fill(n, Sig1)

(***************************************************************************)
(* Byte strings a transport may supply to a decoder.                       *)
(***************************************************************************)
DeclLens == {0, 1, 2, 3, 5, 1985, 1986, 2000, 65535}
PayloadBytes == {0, 7}
Trailers == {<<>>, <<9>>}

ByteSources == {<<>>} \cup {<<b>> : b \in 0..255}
PrefixedSources ==
  {be16_to_array(L) \o p : L \in DeclLens, p \in Seqs(PayloadBytes, MaxPayload)}

PairBytes(k, v) == be16_to_array(k) \o <<v>>
PairChunks == {PairBytes(k, v) : k \in {0, 1}, v \in MapVals}
MapSources ==
  {be16_to_array(n) \o Flatten(ps, 1, Len(ps)) \o t :
     n \in 0..(MaxPairs + 1), ps \in Seqs(PairChunks, MaxPairs), t \in Trailers}

SigChunks == {serialize_compact(s) : s \in SigVals} \cup {BadCompact}
SigSources ==
  {be16_to_array(Len(ss)) \o Flatten(ss, 1, Len(ss)) \o t :
     ss \in Seqs(SigChunks, MaxLen), t \in Trailers}
  \cup SigChunks

KeySources ==
  {serialize(k) : k \in KeyVals}
  \cup {<<4>> \o GeneratorX, <<2>> \o Fill(32, 255), <<2>> \o SubSeq(GeneratorX, 1, 31)}

RampSources == {Ramp(n) : n \in {3, 4, 7, 8, 32, 63, 64, 1299, 1300}}

Sources ==
  ByteSources \cup PrefixedSources \cup MapSources \cup SigSources
  \cup KeySources \cup RampSources

(***************************************************************************)
(* The caller.                                                             *)
(*   phase  where the caller is: "idle"; "written": a message is being     *)
(*          encoded; "loaded": the transport has supplied bytes; "read":   *)
(*          fields have been decoded; "relay" / "relayed": a decoded value *)
(*          is encoded again                                               *)
(*   w      the sink                                                       *)
(*   wlog   one record per write call: type, value (or, for a wide input,  *)
(*          its count), Result, sink length before the call                *)
(*   r      the source                                                     *)
(*   rlog   one record per read call: type, Result, position before        *)
(***************************************************************************)
VARIABLES phase, w, wlog, r, rlog

vars == <<phase, w, wlog, r, rlog>>

\* A second field is only appended to a head of at most MaxHead bytes.
MaxHead == 70

Init ==
  /\ phase = "idle"
  /\ w = NewSink(0)
  /\ wlog = <<>>
  /\ r = NewSource(<<>>)
  /\ rlog = <<>>

LastOk(log) == IF log = <<>> THEN TRUE ELSE log[Len(log)].res.ok

CanEncode ==
  \/ phase = "idle"
  \/ phase = "relay"
  \/ /\ phase = "written"
     /\ Len(wlog) < MaxFields
     /\ LastOk(wlog)
     /\ Len(w.buf) <= MaxHead

\* The sink of the next write: a message starts on a fresh sink, whose
\* write_all call number f (0: none) is going to fail.
FailAts == IF phase = "idle" THEN 0..MaxFailAt ELSE {0}
Sink(f) == IF phase = "idle" THEN NewSink(f) ELSE w

\* The values the caller may hand to the next write of type <<ty, n>>.
Inputs(ty, n, first, later) ==
  CASE phase = "relay" ->
         IF rlog[1].ty = ty /\ rlog[1].n = n THEN {rlog[1].res.val} ELSE {}
    [] phase = "idle" -> first
    [] OTHER -> later

\* The wide inputs of type ty: drawn for the first field of a message only.
Wides(ty) == IF phase = "idle" THEN WideLens(ty) ELSE {}

Encoded(ty, n, v, wide, c) ==
  /\ CanEncode
  /\ w' = c.w
  /\ wlog' = Append(wlog, WriteCall(ty, n, v, wide, c.res,
                                     IF phase = "written" THEN Len(w.buf)
                                                          ELSE 0))
  /\ phase' = IF phase = "relay" THEN "relayed" ELSE "written"
  /\ UNCHANGED <<r, rlog>>

\* A decoder of a message takes the bytes out of the sink and reads the
\* fields in the order they were written; bytes supplied by the transport
\* are read as one value of any type.
CanDecode(ty, n) ==
  CASE phase = "loaded" -> TRUE
    [] phase = "written" ->
         LastOk(wlog) /\ wlog[1].ty = ty /\ wlog[1].n = n
    [] phase = "read" ->
         /\ LastOk(rlog)
         /\ Len(rlog) < Len(wlog)
         /\ wlog[Len(rlog) + 1].ty = ty
         /\ wlog[Len(rlog) + 1].n = n
    [] OTHER -> FALSE

\* The source as the next read call sees it.
Source(drain) ==
  Reader(IF phase = "written" THEN NewSource(w.buf) ELSE r, drain)

Decoded(ty, n, c) ==
  /\ r' = [buf |-> c.r.buf, pos |-> c.r.pos]
  /\ rlog' = Append(rlog, ReadCall(ty, n, c.res,
                                    IF phase = "written" THEN 0 ELSE r.pos))
  /\ w' = IF phase = "written" THEN [w EXCEPT !.buf = <<>>] ELSE w
  /\ phase' = "read"
  /\ UNCHANGED wlog

Encode_u8 ==
  \E v \in Inputs("u8", 0, U8Vals, {2}), f \in FailAts :
    Encoded("u8", 0, v, 0, Write_u8(Sink(f), v))
Decode_u8 ==
  /\ CanDecode("u8", 0)
  /\ \E d \in BOOLEAN : Decoded("u8", 0, Read_u8(Source(d)))

Encode_bool ==
  \E v \in Inputs("bool", 0, BOOLEAN, {TRUE}), f \in FailAts :
    Encoded("bool", 0, v, 0, Write_bool(Sink(f), v))
Decode_bool ==
  /\ CanDecode("bool", 0)
  /\ \E d \in BOOLEAN : Decoded("bool", 0, Read_bool(Source(d)))

Encode_primitive ==
  \E len \in {2, 4, 8}, f \in FailAts :
    \E v \in Inputs("primitive", len, PrimitiveVals(len), PrimitiveHead(len)) :
      Encoded("primitive", len, v, 0, Write_primitive(len, Sink(f), v))
Decode_primitive ==
  \E len \in {2, 4, 8}, d \in BOOLEAN :
    /\ CanDecode("primitive", len)
    /\ Decoded("primitive", len, Read_primitive(len, Source(d)))

Encode_array ==
  \E size \in ArraySizes, f \in FailAts :
    \E v \in Inputs("array", size, ArrayVals(size), {}) :
      Encoded("array", size, v, 0, Write_array(size, Sink(f), v))
Decode_array ==
  \E size \in ArraySizes, d \in BOOLEAN :
    /\ CanDecode("array", size)
    /\ Decoded("array", size, Read_array(size, Source(d)))

Encode_HashMap ==
  \/ /\ phase # "relay"
     /\ \E in \in Inputs("HashMap", 0, MapSmall, MapsUpTo(1)), f \in FailAts :
          Encoded("HashMap", 0, in.m, 0, Write_HashMap(Sink(f), in.m, in.items))
  \/ /\ phase = "relay"
     /\ \E m \in Inputs("HashMap", 0, {}, {}) :
          \E ord \in IterOrders(DOMAIN m) :
            Encoded("HashMap", 0, m, 0, Write_HashMap(w, m, Iter(m, ord)))
Decode_HashMap ==
  /\ CanDecode("HashMap", 0)
  /\ \E d \in BOOLEAN : Decoded("HashMap", 0, Read_HashMap(Source(d)))

Encode_VecU8 ==
  \/ \E v \in Inputs("VecU8", 0, VecU8Small, VecU8Small), f \in FailAts :
       Encoded("VecU8", 0, v, 0, Write_VecU8(Sink(f), v))
  \/ \E n \in Wides("VecU8"), f \in FailAts :
       Encoded("VecU8", 0, Blank("VecU8"), n,
               Write_VecU8(Sink(f), WideVal("VecU8", n)))
Decode_VecU8 ==
  /\ CanDecode("VecU8", 0)
  /\ \E d \in BOOLEAN : Decoded("VecU8", 0, Read_VecU8(Source(d)))

Encode_VecSignature ==
  \/ \E v \in Inputs("VecSignature", 0, VecSigSmall, Seqs(SigVals, 1)),
        f \in FailAts :
       Encoded("VecSignature", 0, v, 0, Write_VecSignature(Sink(f), v))
  \/ \E n \in Wides("VecSignature"), f \in FailAts :
       Encoded("VecSignature", 0, Blank("VecSignature"), n,
               Write_VecSignature(Sink(f), WideVal("VecSignature", n)))
Decode_VecSignature ==
  /\ CanDecode("VecSignature", 0)
  /\ \E d \in BOOLEAN :
       Decoded("VecSignature", 0, Read_VecSignature(Source(d)))

Encode_Script ==
  \/ \E v \in Inputs("Script", 0, ScriptSmall, {ScriptFrom(<<255>>)}),
        f \in FailAts :
       Encoded("Script", 0, v, 0, Write_Script(Sink(f), v))
  \/ \E n \in Wides("Script"), f \in FailAts :
       Encoded("Script", 0, Blank("Script"), n,
               Write_Script(Sink(f), WideVal("Script", n)))
Decode_Script ==
  /\ CanDecode("Script", 0)
  /\ \E d \in BOOLEAN : Decoded("Script", 0, Read_Script(Source(d)))

Encode_OptionScript ==
  \/ \E v \in Inputs("OptionScript", 0, OptionScriptSmall,
                     {None, Some(ScriptFrom(<<>>))}), f \in FailAts :
       Encoded("OptionScript", 0, v, 0, Write_OptionScript(Sink(f), v))
  \/ \E n \in Wides("OptionScript"), f \in FailAts :
       Encoded("OptionScript", 0, Blank("OptionScript"), n,
               Write_OptionScript(Sink(f), WideVal("OptionScript", n)))
Decode_OptionScript ==
  /\ CanDecode("OptionScript", 0)
  /\ \E d \in BOOLEAN :
       Decoded("OptionScript", 0, Read_OptionScript(Source(d)))

Encode_PublicKey ==
  \E v \in Inputs("PublicKey", 0, KeyVals, {}), f \in FailAts :
    Encoded("PublicKey", 0, v, 0, Write_PublicKey(Sink(f), v))
Decode_PublicKey ==
  /\ CanDecode("PublicKey", 0)
  /\ \E d \in BOOLEAN : Decoded("PublicKey", 0, Read_PublicKey(Source(d)))

Encode_Sha256dHash ==
  \E v \in Inputs("Sha256dHash", 0, HashVals, {}), f \in FailAts :
    Encoded("Sha256dHash", 0, v, 0, Write_Sha256dHash(Sink(f), v))
Decode_Sha256dHash ==
  /\ CanDecode("Sha256dHash", 0)
  /\ \E d \in BOOLEAN : Decoded("Sha256dHash", 0, Read_Sha256dHash(Source(d)))

Encode_Signature ==
  \E v \in Inputs("Signature", 0, SigVals, {Sig2}), f \in FailAts :
    Encoded("Signature", 0, v, 0, Write_Signature(Sink(f), v))
Decode_Signature ==
  /\ CanDecode("Signature", 0)
  /\ \E d \in BOOLEAN : Decoded("Signature", 0, Read_Signature(Source(d)))

\* The transport supplies bytes of its own.
Supply ==
  /\ phase = "idle"
  /\ \E bytes \in Sources : r' = NewSource(bytes)
  /\ phase' = "loaded"
  /\ UNCHANGED <<w, wlog, rlog>>

\* A value decoded from supplied bytes is encoded again into a fresh sink.
Relay ==
  /\ phase = "read"
  /\ wlog = <<>>
  /\ rlog[1].res.ok
  /\ w' = NewSink(0)
  /\ phase' = "relay"
  /\ UNCHANGED <<wlog, r, rlog>>

Reset ==
  /\ phase \in {"read", "relayed"}
  /\ phase' = "idle"
  /\ w' = NewSink(0)
  /\ wlog' = <<>>
  /\ r' = NewSource(<<>>)
  /\ rlog' = <<>>

Next ==
  \/ Encode_u8 \/ Decode_u8
  \/ Encode_bool \/ Decode_bool
  \/ Encode_primitive \/ Decode_primitive
  \/ Encode_array \/ Decode_array
  \/ Encode_HashMap \/ Decode_HashMap
  \/ Encode_VecU8 \/ Decode_VecU8
  \/ Encode_VecSignature \/ Decode_VecSignature
  \/ Encode_Script \/ Decode_Script
  \/ Encode_OptionScript \/ Decode_OptionScript
  \/ Encode_PublicKey \/ Decode_PublicKey
  \/ Encode_Sha256dHash \/ Decode_Sha256dHash
  \/ Encode_Signature \/ Decode_Signature
  \/ Supply \/ Relay \/ Reset

Spec == Init /\ [][Next]_vars

TypeOK ==
  /\ phase \in {"idle", "written", "loaded", "read", "relay", "relayed"}
  /\ Len(wlog) <= MaxFields
  /\ r.pos <= Len(r.buf)

(***************************************************************************)
(* What the logs say about a call.                                         *)
(***************************************************************************)
\* No write_all call on the sink has failed.
NoIoFailure == w.failAt = 0 \/ w.calls < w.failAt

\* The sink still holds the bytes written (no decoder has taken them).
SinkHeld == phase \in {"written", "relayed"}

\* The value and the element count handed to write call i.
ValOf(i) ==
  IF wlog[i].wide # 0 THEN WideVal(wlog[i].ty, wlog[i].wide) ELSE wlog[i].val
CountOf(i) == IF wlog[i].wide # 0 THEN wlog[i].wide ELSE Len(wlog[i].val)

\* The bytes write call i appended to the sink (while the sink holds them).
WEnd(i) == IF i < Len(wlog) THEN wlog[i + 1].from ELSE Len(w.buf)
Written(i) == SubSeq(w.buf, wlog[i].from + 1, WEnd(i))

\* Read call i: bytes left when it started, position when it returned, and
\* the 16-bit big-endian number at its start.
Left(i) == Len(r.buf) - rlog[i].from
REnd(i) == IF i < Len(rlog) THEN rlog[i + 1].from ELSE r.pos
Declared(i) == slice_to_be16(SubSeq(r.buf, rlog[i].from + 1, rlog[i].from + 2))

IsErr(res, e) == ~res.ok /\ res.err = e

\* A message of one field has been written into an empty sink, handed to a
\* source and read back as the same type.
RoundTripDone == phase = "read" /\ Len(wlog) = 1 /\ Len(rlog) = 1

(***************************************************************************)
(* C1: round trip.  For every supported type and every value v, encoding   *)
(* v into an empty sink and decoding the same type from exactly the bytes  *)
(* written succeeds and returns v, whatever the length or entry count.     *)
(***************************************************************************)
C1_RoundTrip ==
  RoundTripDone => rlog[1].res.ok /\ rlog[1].res.val = ValOf(1)

(***************************************************************************)
(* C2: decoding an optional script from a source with at least one byte    *)
(* left never returns None, and returns a hard error whenever the decode   *)
(* cannot complete (one byte left, or fewer payload bytes than declared).  *)
(***************************************************************************)
C2_NoneOnlyWhenExhausted ==
  \A i \in DOMAIN rlog :
    (rlog[i].ty = "OptionScript" /\ Left(i) >= 1) =>
      /\ rlog[i].res.ok => rlog[i].res.val.some
      /\ (Left(i) < 2 \/ Left(i) - 2 < Declared(i)) => ~rlog[i].res.ok

(***************************************************************************)
(* C3: encoding fails only through I/O failure of the sink: if every       *)
(* write_all call succeeds, the encode call returns success.               *)
(***************************************************************************)
C3_EncodeFailsOnlyOnIo ==
  NoIoFailure => \A i \in DOMAIN wlog : wlog[i].res.ok

\* C3 as amended: if every write_all call succeeds, the encode call returns
\* success, except that encoding a signature vector of n elements with
\* n * 33 > 65536 (n >= 1986) fails with BadLengthDescriptor.
C3_EncodeFailsOnlyOnIoOrGuard ==
  NoIoFailure =>
    \A i \in DOMAIN wlog :
      IF wlog[i].ty = "VecSignature" /\ CountOf(i) * 33 > 65536
      THEN IsErr(wlog[i].res, "BadLengthDescriptor")
      ELSE wlog[i].res.ok

C3_Witness ==
  /\ phase = "written"
  /\ NoIoFailure
  /\ wlog[1].ty = "VecSignature"
  /\ CountOf(1) = 1986
  /\ IsErr(wlog[1].res, "BadLengthDescriptor")
  /\ w.calls = 0

(***************************************************************************)
(* C4: whenever encoding a byte vector, script or mapping succeeds, the    *)
(* 16-bit length prefix written equals the number of payload bytes (byte   *)
(* vector, script) or entries (mapping) written after it.                  *)
(***************************************************************************)
C4_PrefixEqualsCount ==
  \A i \in DOMAIN wlog :
    (/\ SinkHeld
     /\ wlog[i].ty \in {"VecU8", "Script", "HashMap"}
     /\ wlog[i].res.ok) =>
      LET prefix == slice_to_be16(SubSeq(Written(i), 1, 2))
          payload == Len(Written(i)) - 2
      IN IF wlog[i].ty = "HashMap"
         THEN prefix * 3 = payload /\ prefix = Cardinality(DOMAIN wlog[i].val)
         ELSE prefix = payload

(***************************************************************************)
(* C5: signature-vector overflow guard.  Decoding a declared count n and   *)
(* encoding n signatures fail with BadLengthDescriptor exactly when        *)
(* n * 33 > 65536, that is n >= 1986; the rejecting decode has consumed    *)
(* only the 2-byte count, the rejecting encode has written nothing.        *)
(***************************************************************************)
C5_SignatureVectorGuard ==
  /\ \A i \in DOMAIN wlog :
       wlog[i].ty = "VecSignature" =>
         LET n == CountOf(i)
         IN /\ IsErr(wlog[i].res, "BadLengthDescriptor") <=> n >= 1986
            /\ n >= 1986 <=> n * 33 > 65536
            /\ IsErr(wlog[i].res, "BadLengthDescriptor") =>
                 /\ SinkHeld /\ Len(w.buf) = wlog[i].from
                 /\ i = 1 => w.calls = 0
  /\ \A i \in DOMAIN rlog :
       (rlog[i].ty = "VecSignature" /\ Left(i) >= 2) =>
         LET n == Declared(i)
         IN /\ IsErr(rlog[i].res, "BadLengthDescriptor") <=> n >= 1986
            /\ n >= 1986 <=> n * 33 > 65536
            /\ IsErr(rlog[i].res, "BadLengthDescriptor") =>
                 REnd(i) = rlog[i].from + 2

C5_Witness ==
  /\ phase = "read"
  /\ rlog[1].ty = "VecSignature"
  /\ Left(1) > 2
  /\ Declared(1) = 1986
  /\ IsErr(rlog[1].res, "BadLengthDescriptor")
  /\ r.pos = 2

(***************************************************************************)
(* C6: truncation.  Decoding a byte vector or a script whose declared      *)
(* length L >= 1 is followed by k < L bytes fails with a short read; it    *)
(* never succeeds with the k bytes or a padded value.                      *)
(***************************************************************************)
C6_Truncation ==
  \A i \in DOMAIN rlog :
    (/\ rlog[i].ty \in {"VecU8", "Script"}
     /\ Left(i) >= 2
     /\ Declared(i) >= 1
     /\ Left(i) - 2 < Declared(i)) =>
      IsErr(rlog[i].res, "ShortRead")

C6_Witness ==
  /\ phase = "read"
  /\ rlog[1].ty = "VecU8"
  /\ Left(1) - 2 = 3
  /\ Declared(1) = 5
  /\ IsErr(rlog[1].res, "ShortRead")

(***************************************************************************)
(* C7: encoding None and encoding Some(empty script) produce the same      *)
(* byte sequence.                                                          *)
(***************************************************************************)
EmptyScript == ScriptFrom(<<>>)

C8_BooleanStrictness ==
  /\ \A i \in DOMAIN rlog :
       (rlog[i].ty = "bool" /\ Left(i) >= 1) =>
         LET b == r.buf[rlog[i].from + 1]
         IN CASE b = 0 -> rlog[i].res.ok /\ rlog[i].res.val = FALSE
              [] b = 1 -> rlog[i].res.ok /\ rlog[i].res.val = TRUE
              [] OTHER -> IsErr(rlog[i].res, "InvalidValue")
  /\ \A i \in DOMAIN wlog :
       (SinkHeld /\ wlog[i].ty = "bool" /\ wlog[i].res.ok) =>
         Written(i) = <<IF wlog[i].val THEN 1 ELSE 0>>

C8_Witness ==
  /\ phase = "read"
  /\ rlog[1].ty = "bool"
  /\ r.buf = <<2>>
  /\ IsErr(rlog[1].res, "InvalidValue")

(***************************************************************************)
(* C9: exact forward consumption.  A successful decode of a byte vector    *)
(* with declared length L consumes exactly 2 + L bytes, of a signature     *)
(* vector with declared count n exactly 2 + 64 * n bytes, of a mapping     *)
(* (2-byte keys, 1-byte values) with declared count n exactly 2 + 3 * n    *)
(* bytes; a declared count of 0 yields an empty result and consumes 2      *)
(* bytes; the bytes that follow are left for the next read.  So two such   *)
(* values (their counts fit the prefix) written one after the other are    *)
(* both returned by decoding them in sequence.                             *)
(***************************************************************************)
Counted == {"VecU8", "VecSignature", "HashMap"}
ElementWidth(ty) ==
  CASE ty = "VecU8" -> 1 [] ty = "VecSignature" -> 64 [] ty = "HashMap" -> 3
EntriesOf(i) ==
  IF wlog[i].ty = "HashMap" THEN Cardinality(DOMAIN wlog[i].val)
  ELSE CountOf(i)

C9_ExactForwardConsumption ==
  /\ \A i \in DOMAIN rlog :
       (rlog[i].ty \in Counted /\ rlog[i].res.ok) =>
         LET n == Declared(i)
             got == rlog[i].res.val
         IN /\ REnd(i) = rlog[i].from + 2 + n * ElementWidth(rlog[i].ty)
            /\ n = 0 => got = <<>> /\ REnd(i) = rlog[i].from + 2
            /\ rlog[i].ty = "VecU8" =>
                 got = SubSeq(r.buf, rlog[i].from + 3, rlog[i].from + 2 + n)
            /\ rlog[i].ty = "VecSignature" => Len(got) = n
  /\ (/\ phase = "read"
      /\ Len(wlog) = 2 /\ Len(rlog) = 2
      /\ \A i \in 1..2 : wlog[i].ty \in Counted /\ EntriesOf(i) <= 65535) =>
       \A i \in 1..2 : rlog[i].res.ok /\ rlog[i].res.val = ValOf(i)

C9_Witness ==
  /\ phase = "read"
  /\ Len(wlog) = 2 /\ Len(rlog) = 2
  /\ wlog[1].ty = "VecU8" /\ Len(wlog[1].val) = 2
  /\ wlog[2].ty = "HashMap" /\ Cardinality(DOMAIN wlog[2].val) = 1
  /\ REnd(1) = 4 /\ REnd(1) < Len(r.buf)
  /\ rlog[1].res.ok /\ rlog[1].res.val = wlog[1].val
  /\ rlog[2].res.ok /\ rlog[2].res.val = wlog[2].val
  /\ r.pos = Len(r.buf)

(***************************************************************************)
(* C10: mapping decode with repeated keys.  Decoding a mapping with        *)
(* declared count n reads n key/value pairs when enough bytes are present  *)
(* and never fails because a key repeats; the result holds one entry per   *)
(* distinct key read, with the value of the last pair carrying that key,   *)
(* so its size is at most n, and less than n exactly when a key repeats.   *)
(* Encoding the decoded mapping again then writes a count smaller than n.  *)
(***************************************************************************)
KeyAt(i, k) ==
  slice_to_be16(SubSeq(r.buf, rlog[i].from + 3 * k, rlog[i].from + 3 * k + 1))
ValueAt(i, k) == r.buf[rlog[i].from + 3 * k + 2]
KeyRepeats(i) ==
  \E j, k \in 1..Declared(i) : j < k /\ KeyAt(i, j) = KeyAt(i, k)
LastOf(i, key) ==
  CHOOSE k \in 1..Declared(i) :
    /\ KeyAt(i, k) = key
    /\ \A j \in (k + 1)..Declared(i) : KeyAt(i, j) # key

C10_RepeatedKeys ==
  /\ \A i \in DOMAIN rlog :
       (/\ rlog[i].ty = "HashMap"
        /\ Left(i) >= 2
        /\ Left(i) - 2 >= 3 * Declared(i)) =>
         LET n == Declared(i)
             m == rlog[i].res.val
         IN /\ rlog[i].res.ok
            /\ REnd(i) = rlog[i].from + 2 + 3 * n
            /\ DOMAIN m = {KeyAt(i, k) : k \in 1..n}
            /\ \A key \in DOMAIN m : m[key] = ValueAt(i, LastOf(i, key))
            /\ Cardinality(DOMAIN m) <= n
            /\ Cardinality(DOMAIN m) < n <=> KeyRepeats(i)
  /\ (/\ phase = "relayed"
      /\ rlog[1].ty = "HashMap"
      /\ wlog[1].res.ok) =>
       LET prefix == slice_to_be16(SubSeq(w.buf, 1, 2))
       IN /\ prefix = Cardinality(DOMAIN rlog[1].res.val)
          /\ prefix < Declared(1) <=> KeyRepeats(1)
          /\ KeyRepeats(1) => w.buf # SubSeq(r.buf, 1, r.pos)

C10_Witness ==
  /\ phase = "relayed"
  /\ rlog[1].ty = "HashMap"
  /\ Declared(1) = 2
  /\ KeyAt(1, 1) = KeyAt(1, 2)
  /\ ValueAt(1, 1) # ValueAt(1, 2)
  /\ rlog[1].res.ok
  /\ rlog[1].res.val[KeyAt(1, 1)] = ValueAt(1, 2)
  /\ wlog[1].res.ok
  /\ w.buf = <<0, 1>> \o SubSeq(r.buf, 6, 8)

====
